---- MODULE Spec2Model ----
(***************************************************************************)
(* Model of agora-server: the menu-item HTTP handlers, the menu-item       *)
(* service, the MenuItem model with its query helpers, and the menu_items  *)
(* table they run against.                                                 *)
(*                                                                         *)
(* The table is the only persistent state.  One action of Spec is one      *)
(* HTTP request handled from decoding to the written response; `last'      *)
(* holds the request and the response that was written for it.             *)
(*                                                                         *)
(* Conventions                                                             *)
(*   - a Go pointer (or a nullable column) is a sequence of length 0 or 1: *)
(*     None is nil / NULL, Some(x) is a pointer to x;                      *)
(*   - a Go string that is inspected character by character (name,         *)
(*     description, search term) is a sequence of one-character strings;   *)
(*   - a price is an integer number of thousandths (1000 is 1.000);        *)
(*   - a time is an integer number of clock ticks.  Every time.Now() of a  *)
(*     handler is separated from the previous one by at least one database *)
(*     round trip, so every read of the clock is later than the last one.  *)
(***************************************************************************)
EXTENDS Integers, Sequences, FiniteSets, TLC

\* ------------------------------------------------------------------------
\* Bounds of the model
\* ------------------------------------------------------------------------

\* number of rows that are ever inserted (identifiers are 1..MaxItems)
MaxItems == 2

\* number of clock readings (time.Now()) in one behaviour
MaxTime == 3

\* clock ticks per second: timestamps are stored per tick and formatted
\* by toResponse with seconds resolution
TicksPerSecond == 2

\* ------------------------------------------------------------------------
\* Program constants
\* ------------------------------------------------------------------------

\* name VARCHAR(100), validate:"max=100"
MaxNameLen == 100

StatusOK == 200
StatusCreated == 201
StatusBadRequest == 400
StatusNotFound == 404
StatusMethodNotAllowed == 405
StatusInternalServerError == 500
StatusServiceUnavailable == 503

\* ------------------------------------------------------------------------
\* Values
\* ------------------------------------------------------------------------

None == << >>
Some(x) == << x >>

IDs == 1..MaxItems

\* validate:"oneof=appetizer main dessert drink side 'fast food'" and the
\* handler's validCategories map
validCategories == {"appetizer", "main", "dessert", "drink", "side", "fast food"}

\* CHECK (category IN ('appetizer', 'main', 'dessert', 'drink', 'side'))
CheckCategories == {"appetizer", "main", "dessert", "drink", "side"}

Name101 == [i \in 1..(MaxNameLen + 1) |-> "x"]

\* ------------------------------------------------------------------------
\* The menu_items table and its constraints
\* ------------------------------------------------------------------------

\* DECIMAL(10,2): a value is rounded to hundredths (half away from zero)
\* when it is stored
RoundDecimal(p) ==
    IF p >= 0 THEN ((p + 5) \div 10) * 10
    ELSE -(((-p + 5) \div 10) * 10)

\* the row that a struct value becomes when it is written to the table
Coerce(item) == [item EXCEPT !.Price = RoundDecimal(item.Price)]

\* VARCHAR(100) NOT NULL, CHECK (price > 0), CHECK (category IN (...))
ConstraintsHold(row) ==
    /\ Len(row.Name) <= MaxNameLen
    /\ row.Price > 0
    /\ row.Category \in CheckCategories

Rows(tbl) == {tbl[i] : i \in DOMAIN tbl}

\* bun:"deleted_at,soft_delete,nullzero": every SELECT and UPDATE that bun
\* builds for the model is restricted to rows with deleted_at IS NULL (no
\* query of the program asks for WhereDeleted or WhereAllWithDeleted); only
\* a DELETE with ForceDelete() is not.
SoftDeleteScope(tbl) == {r \in Rows(tbl) : r.DeletedAt = None}

\* ------------------------------------------------------------------------
\* ILIKE
\* ------------------------------------------------------------------------

ToLower(c) ==
    CASE c = "P" -> "p"
      [] c = "S" -> "s"
      [] OTHER -> c

\* text ILIKE pattern: % matches any run of characters, _ matches any one
\* character, every other character matches itself without regard to case
RECURSIVE ILike(_, _)
ILike(text, pattern) ==
    IF pattern = << >> THEN text = << >>
    ELSE IF Head(pattern) = "%"
         THEN \/ ILike(text, Tail(pattern))
              \/ text # << >> /\ ILike(Tail(text), pattern)
    ELSE IF Head(pattern) = "_"
         THEN text # << >> /\ ILike(Tail(text), Tail(pattern))
    ELSE /\ text # << >>
         /\ ToLower(Head(text)) = ToLower(Head(pattern))
         /\ ILike(Tail(text), Tail(pattern))

\* ------------------------------------------------------------------------
\* models.MenuItem and models.MenuItemQuery
\* ------------------------------------------------------------------------

IsDeleted(m) == m.DeletedAt # None

\* case *bun.InsertQuery: the identifier and both timestamps are assigned
BeforeAppendModelInsert(m, id, t) ==
    [m EXCEPT !.ID = id, !.CreatedAt = t, !.UpdatedAt = t]

\* mutant of BeforeAppendModelUpdate: the hook stamps created_at as well, as
\* it does for an insert
BeforeAppendModelUpdateAsInsert(m, t) ==
    [m EXCEPT !.CreatedAt = t, !.UpdatedAt = t]

\* mutant of BeforeAppendModelUpdate: the hook leaves updated_at alone
BeforeAppendModelUpdateStale(m, t) == m

\* case *bun.UpdateQuery: updated_at is refreshed unless the struct is
\* marked deleted
BeforeAppendModelUpdate(m, t) ==
    IF m.DeletedAt = None THEN [m EXCEPT !.UpdatedAt = t] ELSE m

All(tbl) == {r \in SoftDeleteScope(tbl) : r.DeletedAt = None}

WithDeleted(tbl) == SoftDeleteScope(tbl)

OnlyDeleted(tbl) == {r \in SoftDeleteScope(tbl) : r.DeletedAt # None}

\* mutant of FindByID: the lookup sees soft-deleted rows too
FindByIDAnyRow(tbl, id) == {r \in Rows(tbl) : r.ID = id}

\* the rows of SELECT ... WHERE id = ? AND deleted_at IS NULL; Scan fails
\* with sql.ErrNoRows when there is none
FindByID(tbl, id) ==
    {r \in SoftDeleteScope(tbl) : r.ID = id /\ r.DeletedAt = None}

FindByIDWithDeleted(tbl, id) == {r \in SoftDeleteScope(tbl) : r.ID = id}

\* mutant of UpdateWhereID: the statement is not scoped to the rows that are
\* not soft-deleted
UpdateWhereIDAnyRow(tbl, id, set) ==
    [i \in DOMAIN tbl |-> IF tbl[i].ID = id THEN set[tbl[i]] ELSE tbl[i]]

\* UPDATE menu_items SET <set> WHERE id = ? (and the soft-delete scope):
\* the table after the statement, set(row) being the new value of a row
UpdateWhereID(tbl, id, set) ==
    [i \in DOMAIN tbl |->
        IF tbl[i].ID = id /\ tbl[i] \in SoftDeleteScope(tbl)
        THEN set[tbl[i]] ELSE tbl[i]]

\* m.SoftDelete: SET deleted_at = now, updated_at = now WHERE id = m.ID
SoftDelete(tbl, m, t) ==
    LET set == [r \in Rows(tbl) |->
                    [r EXCEPT !.DeletedAt = Some(t), !.UpdatedAt = t]]
    IN  UpdateWhereID(tbl, m.ID, set)

\* m.Restore: SET deleted_at = NULL, updated_at = now WHERE id = m.ID
Restore(tbl, m, t) ==
    LET set == [r \in Rows(tbl) |->
                    [r EXCEPT !.DeletedAt = None, !.UpdatedAt = t]]
    IN  UpdateWhereID(tbl, m.ID, set)

\* mutant of ForceDelete: the statement matches no row
ForceDeleteNoRow(tbl, m) == tbl

\* m.ForceDelete: DELETE FROM menu_items WHERE id = m.ID, with ForceDelete()
ForceDelete(tbl, m) ==
    [i \in {j \in DOMAIN tbl : tbl[j].ID # m.ID} |-> tbl[i]]

\* ------------------------------------------------------------------------
\* services.MenuItemService
\* ------------------------------------------------------------------------

NoError == "nil"
ErrNoRows == "sql: no rows in result set"
ErrConstraint == "violates constraint"
ErrNotDeleted == "is not deleted"

\* errors a store call returns when the store cannot be reached or the
\* request's context has ended (client gone, deadline passed)
ErrConnRefused == "dial tcp: connect: connection refused"
ErrCanceled == "context canceled"
ErrDeadline == "context deadline exceeded"

StoreErrors == {ErrConnRefused, ErrCanceled, ErrDeadline}

\* item.CreatedAt.Format("2006-01-02T15:04:05Z07:00"): seconds resolution
Format(t) == t \div TicksPerSecond

toResponse(item) ==
    [ID |-> item.ID,
     Name |-> item.Name,
     Description |-> item.Description,
     Price |-> item.Price,
     Category |-> item.Category,
     IsAvailable |-> item.IsAvailable,
     CreatedAt |-> Format(item.CreatedAt),
     UpdatedAt |-> Format(item.UpdatedAt),
     DeletedAt |-> IF item.DeletedAt # None
                   THEN Some(Format(item.DeletedAt[1])) ELSE None]

Responses(items) == {toResponse(r) : r \in items}

\* The result of a service call: the error, the returned value, the table
\* after the call and whether the call read the clock.
Result(err, data, tbl, ticked) ==
    [err |-> err, data |-> data, tbl |-> tbl, ticked |-> ticked]

\* mutant of ServiceCall: the statement that returned the error was applied
ServiceCallApplied(dbErr, tbl, ticked, r) ==
    IF dbErr # NoError THEN Result(dbErr, None, r.tbl, ticked) ELSE r

\* if err != nil { return nil, fmt.Errorf("failed to ...: %w", err) }: the
\* result r of a service method when its store calls succeed, and the error
\* return of the method when the store returns dbErr to its first call
ServiceCall(dbErr, tbl, ticked, r) ==
    IF dbErr # NoError THEN Result(dbErr, None, tbl, ticked) ELSE r

\* id is the identifier the insert assigns, t the reading of the clock
CreateMenuItem(tbl, id, t, req) ==
    LET item0 == [ID |-> 0,
                  Name |-> req.Name,
                  Description |-> req.Description,
                  Price |-> req.Price,
                  Category |-> req.Category,
                  IsAvailable |-> IF req.IsAvailable # None
                                  THEN req.IsAvailable[1] ELSE TRUE,
                  CreatedAt |-> 0,
                  UpdatedAt |-> 0,
                  DeletedAt |-> None]
        item == BeforeAppendModelInsert(item0, id, t)
    IN  IF ConstraintsHold(Coerce(item))
        THEN Result(NoError, toResponse(item),
                    (id :> Coerce(item)) @@ tbl, TRUE)
        ELSE Result(ErrConstraint, None, tbl, TRUE)

GetAllMenuItems(tbl) == Result(NoError, Responses(All(tbl)), tbl, FALSE)

GetMenuItemByID(tbl, id) ==
    LET found == FindByID(tbl, id)
    IN  IF found = {} THEN Result(ErrNoRows, None, tbl, FALSE)
        ELSE Result(NoError, toResponse(CHOOSE r \in found : TRUE), tbl, FALSE)

GetMenuItemsByCategory(tbl, category) ==
    Result(NoError,
           Responses({r \in SoftDeleteScope(tbl) :
                        r.Category = category /\ r.DeletedAt = None}),
           tbl, FALSE)

GetAvailableMenuItems(tbl) ==
    Result(NoError,
           Responses({r \in SoftDeleteScope(tbl) :
                        r.IsAvailable = TRUE /\ r.DeletedAt = None}),
           tbl, FALSE)

\* "Update fields if provided": the loaded struct after the assignments
UpdateFields(item0, req) ==
    [item0 EXCEPT
        !.Name = IF req.Name # None THEN req.Name[1] ELSE @,
        !.Description = IF req.Description # None THEN req.Description ELSE @,
        !.Price = IF req.Price # None THEN req.Price[1] ELSE @,
        !.Category = IF req.Category # None THEN req.Category[1] ELSE @,
        !.IsAvailable = IF req.IsAvailable # None THEN req.IsAvailable[1] ELSE @]

\* s.db.NewUpdate().Model(item).Where("id = ?", id).Exec(ctx) and the
\* return of UpdateMenuItem: every column but the key is set from the
\* struct; a statement that matches no row is no error
UpdateExec(tbl, id, t, item1) ==
    LET item == BeforeAppendModelUpdate(item1, t)
        set == [r \in Rows(tbl) |-> [Coerce(item) EXCEPT !.ID = r.ID]]
    IN  IF ConstraintsHold(Coerce(item))
        THEN Result(NoError, toResponse(item), UpdateWhereID(tbl, id, set), TRUE)
        ELSE Result(ErrConstraint, None, tbl, TRUE)

UpdateMenuItem(tbl, id, t, req) ==
    LET found == FindByID(tbl, id)
    IN  IF found = {} THEN Result(ErrNoRows, None, tbl, FALSE)
        ELSE UpdateExec(tbl, id, t, UpdateFields(CHOOSE r \in found : TRUE, req))

SoftDeleteMenuItem(tbl, id, t) ==
    LET found == FindByID(tbl, id)
    IN  IF found = {} THEN Result(ErrNoRows, None, tbl, FALSE)
        ELSE Result(NoError, None,
                    SoftDelete(tbl, CHOOSE r \in found : TRUE, t), TRUE)

RestoreMenuItem(tbl, id, t) ==
    LET found == FindByIDWithDeleted(tbl, id)
        item == CHOOSE r \in found : TRUE
        restored == [item EXCEPT !.DeletedAt = None, !.UpdatedAt = t]
    IN  IF found = {} THEN Result(ErrNoRows, None, tbl, FALSE)
        ELSE IF ~IsDeleted(item) THEN Result(ErrNotDeleted, None, tbl, FALSE)
        ELSE Result(NoError, toResponse(restored), Restore(tbl, item, t), TRUE)

ForceDeleteMenuItem(tbl, id) ==
    LET found == FindByIDWithDeleted(tbl, id)
    IN  IF found = {} THEN Result(ErrNoRows, None, tbl, FALSE)
        ELSE Result(NoError, None,
                    ForceDelete(tbl, CHOOSE r \in found : TRUE), FALSE)

GetDeletedMenuItems(tbl) == Result(NoError, Responses(OnlyDeleted(tbl)), tbl, FALSE)

GetAllMenuItemsWithDeleted(tbl) ==
    Result(NoError, Responses(WithDeleted(tbl)), tbl, FALSE)

\* searchPattern := "%" + query + "%"; name ILIKE ? OR description ILIKE ?
\* (a NULL description matches nothing)
SearchMenuItems(tbl, query) ==
    LET searchPattern == << "%" >> \o query \o << "%" >>
    IN  Result(NoError,
               Responses({r \in SoftDeleteScope(tbl) :
                    /\ \/ ILike(r.Name, searchPattern)
                       \/ r.Description # None
                          /\ ILike(r.Description[1], searchPattern)
                    /\ r.DeletedAt = None}),
               tbl, FALSE)

\* ------------------------------------------------------------------------
\* Requests
\* ------------------------------------------------------------------------

\* A raw request body: malformed says that the bytes are not one JSON
\* document, prefix that they begin with a complete JSON object, and req is
\* the request that object decodes to.
RawBody(req) == [malformed |-> FALSE, prefix |-> TRUE, req |-> req]
Malformed(req) == [malformed |-> TRUE, prefix |-> FALSE, req |-> req]

\* a complete JSON object followed by bytes that are no JSON
TrailingData(req) == [malformed |-> TRUE, prefix |-> TRUE, req |-> req]

\* json.NewDecoder(r.Body).Decode(&req): Decode reads the next JSON value
\* of the stream and stops at the brace that closes it; what follows the
\* value is not read
Decode(body) == [err |-> ~body.prefix, req |-> body.req]

BaseCreate ==
    [Name |-> << "P", "i" >>, Description |-> None, Price |-> 1000,
     Category |-> "main", IsAvailable |-> None]

\* the decoded bodies of POST /items: the base request and requests that
\* differ from it in one field (two for the second valid request)
CreateBodies ==
    {BaseCreate,
     [BaseCreate EXCEPT !.Name = << "S" >>, !.IsAvailable = Some(FALSE)],
     [BaseCreate EXCEPT !.Category = "fast food"],
     [BaseCreate EXCEPT !.Category = "brunch"],
     [BaseCreate EXCEPT !.Name = << >>],
     [BaseCreate EXCEPT !.Name = Name101],
     [BaseCreate EXCEPT !.Price = 0],
     [BaseCreate EXCEPT !.Price = -1000]}

EmptyUpdate ==
    [Name |-> None, Description |-> None, Price |-> None,
     Category |-> None, IsAvailable |-> None]

\* the decoded bodies of PUT /items/{id}, each with one field
UpdateBodies ==
    {[EmptyUpdate EXCEPT !.Price = Some(2000)],
     [EmptyUpdate EXCEPT !.Price = Some(0)],
     [EmptyUpdate EXCEPT !.Name = Some(<< >>)],
     [EmptyUpdate EXCEPT !.Name = Some(Name101)],
     [EmptyUpdate EXCEPT !.Category = Some("brunch")]}

ListQuery(search, category, available, include_deleted) ==
    [search |-> search, category |-> category, available |-> available,
     include_deleted |-> include_deleted]

\* the query parameters of GET /items ("" and << >> when absent)
ListQueries ==
    {ListQuery(<< >>, "", "", ""),
     ListQuery(<< >>, "", "", "true"),
     ListQuery(<< >>, "", "true", "true"),
     ListQuery(<< >>, "main", "true", "true"),
     ListQuery(<< "p" >>, "drink", "true", "true"),
     ListQuery(<< "p" >>, "", "", "")}

\* the {category} of GET /items/category/{category}
CategoryPaths == {"main", "fast food", "brunch"}

Digits == << "1", "2", "3", "4", "5", "6", "7", "8", "9" >>

\* the {id} segment of a path: the identifiers that are ever assigned and a
\* segment that is no integer
Seg(i) == << Digits[i] >>

IDSegments == {Seg(i) : i \in IDs} \cup {<< "x" >>}

\* ------------------------------------------------------------------------
\* handlers.MenuItemHandlers
\* ------------------------------------------------------------------------

\* strconv.Atoi of the segment after "items"
extractIDFromPath(seg) ==
    IF Len(seg) = 1 /\ \E d \in DOMAIN Digits : Digits[d] = seg[1]
    THEN [err |-> FALSE, id |-> CHOOSE d \in DOMAIN Digits : Digits[d] = seg[1]]
    ELSE [err |-> TRUE, id |-> 0]

\* http.StatusText
StatusText(code) ==
    CASE code = StatusBadRequest -> "Bad Request"
      [] code = StatusNotFound -> "Not Found"
      [] code = StatusMethodNotAllowed -> "Method Not Allowed"
      [] code = StatusInternalServerError -> "Internal Server Error"
      [] code = StatusServiceUnavailable -> "Service Unavailable"
      [] code = StatusCreated -> "Created"
      [] OTHER -> "OK"

\* what a handler does: the response it writes, the table it leaves, and
\* whether it read the clock
Outcome(status, body, tbl, ticked) ==
    [status |-> status, body |-> body, tbl |-> tbl, ticked |-> ticked]

writeErrorResponse(message, statusCode, tbl, ticked) ==
    Outcome(statusCode,
            [error |-> StatusText(statusCode), message |-> message,
             code |-> statusCode],
            tbl, ticked)

writeSuccessResponse(data, message, statusCode, tbl, ticked) ==
    Outcome(statusCode, [data |-> data, message |-> message], tbl, ticked)

\* mutant of ContainsNoRows: every error text is taken for "no rows"
ContainsNoRowsAnyText(err) == TRUE

\* strings.Contains(err.Error(), "no rows")
ContainsNoRows(err) == err = ErrNoRows

\* mutant of ContainsNotDeleted: the handler looks for another text
ContainsNotDeletedOtherText(err) == err = "not restorable"

\* strings.Contains(err.Error(), "not deleted")
ContainsNotDeleted(err) == err = ErrNotDeleted

HandleCreateMenuItem(dbErr, tbl, id, t, body) ==
    LET d == Decode(body)
        r == ServiceCall(dbErr, tbl, TRUE, CreateMenuItem(tbl, id, t, d.req))
    IN  IF d.err
        THEN writeErrorResponse("Invalid JSON format", StatusBadRequest, tbl, FALSE)
        ELSE IF r.err # NoError
        THEN writeErrorResponse(r.err, StatusInternalServerError, r.tbl, r.ticked)
        ELSE writeSuccessResponse(r.data, "Menu item created successfully",
                                  StatusCreated, r.tbl, r.ticked)

\* mutant of ListBranch: the category case comes before the search case
ListBranchCategoryFirst(q) ==
    CASE q.category # "" -> "category"
      [] q.category = "" /\ q.search # << >> -> "search"
      [] q.search = << >> /\ q.category = "" /\ q.available = "true" -> "available"
      [] q.search = << >> /\ q.category = "" /\ q.available # "true"
            /\ q.include_deleted = "true" -> "include_deleted"
      [] OTHER -> "default"

\* the branch of the switch that a query takes
ListBranch(q) ==
    CASE q.search # << >> -> "search"
      [] q.search = << >> /\ q.category # "" -> "category"
      [] q.search = << >> /\ q.category = "" /\ q.available = "true" -> "available"
      [] q.search = << >> /\ q.category = "" /\ q.available # "true"
            /\ q.include_deleted = "true" -> "include_deleted"
      [] OTHER -> "default"

HandleGetAllMenuItems(dbErr, tbl, q) ==
    LET branch == ListBranch(q)
        r == ServiceCall(dbErr, tbl, FALSE,
               CASE branch = "search" -> SearchMenuItems(tbl, q.search)
                 [] branch = "category" -> GetMenuItemsByCategory(tbl, q.category)
                 [] branch = "available" -> GetAvailableMenuItems(tbl)
                 [] branch = "include_deleted" -> GetAllMenuItemsWithDeleted(tbl)
                 [] OTHER -> GetAllMenuItems(tbl))
    IN  IF r.err # NoError
        THEN writeErrorResponse(r.err, StatusInternalServerError, tbl, FALSE)
        ELSE writeSuccessResponse(r.data, "Menu items retrieved successfully",
                                  StatusOK, tbl, FALSE)

HandleGetMenuItemByID(dbErr, tbl, seg) ==
    LET p == extractIDFromPath(seg)
        r == ServiceCall(dbErr, tbl, FALSE, GetMenuItemByID(tbl, p.id))
    IN  IF p.err
        THEN writeErrorResponse("Invalid menu item ID", StatusBadRequest, tbl, FALSE)
        ELSE IF r.err # NoError
        THEN IF ContainsNoRows(r.err)
             THEN writeErrorResponse("Menu item not found", StatusNotFound, tbl, FALSE)
             ELSE writeErrorResponse(r.err, StatusInternalServerError, tbl, FALSE)
        ELSE writeSuccessResponse(r.data, "Menu item retrieved successfully",
                                  StatusOK, tbl, FALSE)

HandleUpdateMenuItem(dbErr, tbl, seg, t, body) ==
    LET p == extractIDFromPath(seg)
        d == Decode(body)
        r == ServiceCall(dbErr, tbl, FALSE, UpdateMenuItem(tbl, p.id, t, d.req))
    IN  IF p.err
        THEN writeErrorResponse("Invalid menu item ID", StatusBadRequest, tbl, FALSE)
        ELSE IF d.err
        THEN writeErrorResponse("Invalid JSON format", StatusBadRequest, tbl, FALSE)
        ELSE IF r.err # NoError
        THEN IF ContainsNoRows(r.err)
             THEN writeErrorResponse("Menu item not found", StatusNotFound,
                                     r.tbl, r.ticked)
             ELSE writeErrorResponse(r.err, StatusInternalServerError,
                                     r.tbl, r.ticked)
        ELSE writeSuccessResponse(r.data, "Menu item updated successfully",
                                  StatusOK, r.tbl, r.ticked)

HandleDeleteMenuItem(dbErr, tbl, seg, t, force) ==
    LET p == extractIDFromPath(seg)
        forceDelete == force = "true"
        r == ServiceCall(dbErr, tbl, FALSE,
                         IF forceDelete THEN ForceDeleteMenuItem(tbl, p.id)
                         ELSE SoftDeleteMenuItem(tbl, p.id, t))
    IN  IF p.err
        THEN writeErrorResponse("Invalid menu item ID", StatusBadRequest, tbl, FALSE)
        ELSE IF r.err # NoError
        THEN IF ContainsNoRows(r.err)
             THEN writeErrorResponse("Menu item not found", StatusNotFound,
                                     r.tbl, r.ticked)
             ELSE writeErrorResponse(r.err, StatusInternalServerError,
                                     r.tbl, r.ticked)
        ELSE writeSuccessResponse(None,
                                  IF forceDelete THEN "Menu item permanently deleted"
                                  ELSE "Menu item deleted successfully",
                                  StatusOK, r.tbl, r.ticked)

HandleRestoreMenuItem(dbErr, tbl, seg, t) ==
    LET p == extractIDFromPath(seg)
        r == ServiceCall(dbErr, tbl, FALSE, RestoreMenuItem(tbl, p.id, t))
    IN  IF p.err
        THEN writeErrorResponse("Invalid menu item ID", StatusBadRequest, tbl, FALSE)
        ELSE IF r.err # NoError
        THEN IF ContainsNoRows(r.err)
             THEN writeErrorResponse("Menu item not found", StatusNotFound,
                                     r.tbl, r.ticked)
             ELSE IF ContainsNotDeleted(r.err)
             THEN writeErrorResponse("Menu item is not deleted", StatusBadRequest,
                                     r.tbl, r.ticked)
             ELSE writeErrorResponse(r.err, StatusInternalServerError,
                                     r.tbl, r.ticked)
        ELSE writeSuccessResponse(r.data, "Menu item restored successfully",
                                  StatusOK, r.tbl, r.ticked)

HandleGetDeletedMenuItems(dbErr, tbl) ==
    LET r == ServiceCall(dbErr, tbl, FALSE, GetDeletedMenuItems(tbl))
    IN  IF r.err # NoError
        THEN writeErrorResponse(r.err, StatusInternalServerError, tbl, FALSE)
        ELSE writeSuccessResponse(r.data,
                                  "Deleted menu items retrieved successfully",
                                  StatusOK, tbl, FALSE)

\* mutant of CategoryIsValid: the handler does not look at the category
CategoryIsValidAny(category) == TRUE

\* validCategories[category]
CategoryIsValid(category) == category \in validCategories

HandleGetMenuItemsByCategory(dbErr, tbl, category) ==
    LET r == ServiceCall(dbErr, tbl, FALSE, GetMenuItemsByCategory(tbl, category))
    IN  IF category = ""
        THEN writeErrorResponse("Category parameter is required", StatusBadRequest,
                                tbl, FALSE)
        ELSE IF ~CategoryIsValid(category)
        THEN writeErrorResponse("Invalid category", StatusBadRequest, tbl, FALSE)
        ELSE IF r.err # NoError
        THEN writeErrorResponse(r.err, StatusInternalServerError, tbl, FALSE)
        ELSE writeSuccessResponse(r.data, "Menu items retrieved successfully",
                                  StatusOK, tbl, FALSE)

\* ------------------------------------------------------------------------
\* The server: one request at a time
\* ------------------------------------------------------------------------

VARIABLES
    table,          \* menu_items: identifier -> row
    nextID,         \* the identifier the next insert assigns
    now,            \* the last reading of the clock
    last,           \* the last request and the response written for it
    forceDeleted,   \* the identifiers whose force-delete was answered 200
    calls,          \* the item requests in flight, one per connection
    health,         \* the "/api/v1/health" requests in flight, one per client
    store           \* how the store answers a ping

vars == << table, nextID, now, last, forceDeleted, calls, health, store >>

\* the connections that carry concurrent item requests
Conns == {"a", "b"}

\* the clients of the health endpoint
Clients == {"a", "b"}

\* the timeout of the health check, in seconds:
\* context.WithTimeout(r.Context(), 5*time.Second)
HealthTimeout == 5

\* a connection with no request in flight and no response yet
NoCall ==
    [pc |-> "idle", op |-> "none", id |-> 0, req |-> None, item |-> None,
     status |-> 0, data |-> None, at |-> 0]

\* a client that has sent no health request
NoHealth ==
    [pc |-> "idle", left |-> 0, gone |-> FALSE, err |-> NoError, status |-> 0,
     body |-> << >>]

CreateRawBodies == {RawBody(b) : b \in CreateBodies} \cup {Malformed(BaseCreate)}

UpdateRawBodies == {RawBody(b) : b \in UpdateBodies} \cup {Malformed(EmptyUpdate)}

Init ==
    /\ table = << >>
    /\ nextID = 1
    /\ now = 0
    /\ last = [op |-> "none", arg |-> << >>, status |-> 0, body |-> << >>]
    /\ forceDeleted = {}
    /\ calls = [c \in Conns |-> NoCall]
    /\ health = [c \in Clients |-> NoHealth]
    /\ store = "up"

\* a request is handled: out is what the handler did with it
Handled(op, arg, out) ==
    /\ out.ticked => now < MaxTime
    /\ table' = out.tbl
    /\ now' = IF out.ticked THEN now + 1 ELSE now
    /\ last' = [op |-> op, arg |-> arg, status |-> out.status, body |-> out.body]
    /\ UNCHANGED << calls, health, store >>

H_CreateMenuItem ==
    \E body \in CreateRawBodies :
        LET out == HandleCreateMenuItem(NoError, table, nextID, now + 1, body)
        IN  /\ out.status = StatusCreated => nextID <= MaxItems
            /\ Handled("create", [body |-> body], out)
            /\ nextID' = IF out.status = StatusCreated THEN nextID + 1 ELSE nextID
            /\ UNCHANGED forceDeleted

H_GetAllMenuItems ==
    \E q \in ListQueries :
        /\ Handled("list", [q |-> q], HandleGetAllMenuItems(NoError, table, q))
        /\ UNCHANGED << nextID, forceDeleted >>

H_GetMenuItemByID ==
    \E seg \in IDSegments :
        /\ Handled("get", [seg |-> seg], HandleGetMenuItemByID(NoError, table, seg))
        /\ UNCHANGED << nextID, forceDeleted >>

H_UpdateMenuItem ==
    \E seg \in IDSegments, body \in UpdateRawBodies :
        /\ Handled("update", [seg |-> seg, body |-> body],
                   HandleUpdateMenuItem(NoError, table, seg, now + 1, body))
        /\ UNCHANGED << nextID, forceDeleted >>

H_DeleteMenuItem ==
    \E seg \in IDSegments, force \in {"", "true"} :
        LET out == HandleDeleteMenuItem(NoError, table, seg, now + 1, force)
        IN  /\ Handled("delete", [seg |-> seg, force |-> force], out)
            /\ forceDeleted' =
                  IF force = "true" /\ out.status = StatusOK
                  THEN forceDeleted \cup {extractIDFromPath(seg).id}
                  ELSE forceDeleted
            /\ UNCHANGED nextID

H_RestoreMenuItem ==
    \E seg \in IDSegments :
        /\ Handled("restore", [seg |-> seg],
                   HandleRestoreMenuItem(NoError, table, seg, now + 1))
        /\ UNCHANGED << nextID, forceDeleted >>

H_GetDeletedMenuItems ==
    /\ Handled("deleted", << >>, HandleGetDeletedMenuItems(NoError, table))
    /\ UNCHANGED << nextID, forceDeleted >>

H_GetMenuItemsByCategory ==
    \E category \in CategoryPaths :
        /\ Handled("category", [category |-> category],
                   HandleGetMenuItemsByCategory(NoError, table, category))
        /\ UNCHANGED << nextID, forceDeleted >>

Next ==
    \/ H_CreateMenuItem
    \/ H_GetAllMenuItems
    \/ H_GetMenuItemByID
    \/ H_UpdateMenuItem
    \/ H_DeleteMenuItem
    \/ H_RestoreMenuItem
    \/ H_GetDeletedMenuItems
    \/ H_GetMenuItemsByCategory

Spec == Init /\ [][Next]_vars

\* ------------------------------------------------------------------------
\* The health handlers
\* ------------------------------------------------------------------------

\* database.HealthCheck: db.PingContext(ctx), the one store round trip
HealthCheck(dbErr) == dbErr

\* (the Timestamp of a HealthResponse is not modelled)
HealthHandler(tbl) ==
    Outcome(StatusOK,
            [service |-> "agora-server", status |-> "healthy",
             database |-> [status |-> "healthy", error |-> NoError]],
            tbl, FALSE)

\* mutant of HealthHandlerWithDB: the result of the ping is not looked at
HealthHandlerWithDBNoPing(dbErr, tbl) == HealthHandler(tbl)

HealthHandlerWithDB(dbErr, tbl) ==
    LET err == HealthCheck(dbErr)
        status == IF err # NoError THEN "degraded" ELSE "healthy"
        database == IF err # NoError
                    THEN [status |-> "unhealthy", error |-> err]
                    ELSE [status |-> "healthy", error |-> NoError]
        statusCode == IF status = "degraded" THEN StatusServiceUnavailable
                      ELSE StatusOK
    IN  Outcome(statusCode,
                [service |-> "agora-server", status |-> status,
                 database |-> database],
                tbl, FALSE)

\* ------------------------------------------------------------------------
\* HTTP requests
\* ------------------------------------------------------------------------

\* A request: its method, the segments of its path, its query parameters
\* and its raw body, the error the store returns to the calls made for it
\* (NoError when the store answers), and whether the handler the mux
\* dispatches it to panics: on entry, before any call it makes, or on exit,
\* after its service call and before it writes a response.
Request(method, path) ==
    [method |-> method, path |-> path,
     query |-> ListQuery(<< >>, "", "", ""), force |-> "",
     body |-> RawBody(EmptyUpdate), dbErr |-> NoError, panic |-> "none"]

ItemsPath == << "api", "v1", "items" >>

ItemPath(seg) == ItemsPath \o << seg >>

HealthPath == << "health" >>

ApiHealthPath == << "api", "v1", "health" >>

\* the characters of a path segment: a digit is itself, any other segment
\* is text that strconv.Atoi rejects
Chars(seg) ==
    IF \E d \in DOMAIN Digits : Digits[d] = seg THEN << seg >> ELSE << "x" >>

\* ------------------------------------------------------------------------
\* The routes
\* ------------------------------------------------------------------------

\* the patterns registered on the apiV1 mux; method "" is a pattern without
\* a method, which matches every method
ApiPatterns ==
    {[method |-> "", path |-> << "health" >>, handler |-> "HealthHandlerWithDB"],
     [method |-> "GET", path |-> << "items" >>, handler |-> "GetAllMenuItems"],
     [method |-> "POST", path |-> << "items" >>, handler |-> "CreateMenuItem"],
     [method |-> "GET", path |-> << "items", "deleted" >>,
      handler |-> "GetDeletedMenuItems"],
     [method |-> "GET", path |-> << "items", "category", "{category}" >>,
      handler |-> "GetMenuItemsByCategory"],
     [method |-> "GET", path |-> << "items", "{id}" >>,
      handler |-> "GetMenuItemByID"],
     [method |-> "PUT", path |-> << "items", "{id}" >>,
      handler |-> "UpdateMenuItem"],
     [method |-> "DELETE", path |-> << "items", "{id}" >>,
      handler |-> "DeleteMenuItem"],
     [method |-> "POST", path |-> << "items", "{id}", "restore" >>,
      handler |-> "RestoreMenuItem"]}

Wildcards == {"{id}", "{category}"}

PathMatches(pattern, path) ==
    /\ Len(pattern) = Len(path)
    /\ \A i \in DOMAIN pattern : pattern[i] \in Wildcards \/ pattern[i] = path[i]

\* a GET pattern also matches HEAD
MethodMatches(pattern, method) ==
    \/ pattern = ""
    \/ pattern = method
    \/ pattern = "GET" /\ method = "HEAD"

Literals(pattern) == Cardinality({i \in DOMAIN pattern : pattern[i] \notin Wildcards})

\* http.ServeMux of apiV1: the handler of the most specific pattern that
\* matches the method and the path; "405" when patterns match the path but
\* none of them the method, "404" when no pattern matches the path
ApiRoute(method, path) ==
    LET byPath == {p \in ApiPatterns : PathMatches(p.path, path)}
        matching == {p \in byPath : MethodMatches(p.method, method)}
    IN  IF matching # {}
        THEN (CHOOSE p \in matching :
                 \A q \in matching : Literals(p.path) >= Literals(q.path)).handler
        ELSE IF byPath # {} THEN "405" ELSE "404"

\* the root mux: "/health", "/api/v1/" (with http.StripPrefix) and the
\* catch-all "/{path...}"
RootRoute(path) ==
    IF path = HealthPath THEN "HealthHandler"
    ELSE IF Len(path) >= 3 /\ path[1] = "api" /\ path[2] = "v1" THEN "apiV1"
    ELSE "NotFoundHandler"

\* http.StripPrefix("/api/v1", apiV1)
StripPrefix(path) == SubSeq(path, 3, Len(path))

\* the handler a request is dispatched to
Route(req) ==
    IF RootRoute(req.path) = "apiV1"
    THEN ApiRoute(req.method, StripPrefix(req.path))
    ELSE RootRoute(req.path)

\* ------------------------------------------------------------------------
\* middlewares
\* ------------------------------------------------------------------------

\* (the Timestamp of an ErrorResponse is not modelled)
SendErrorResponse(path, statusCode, errorType, message, tbl, ticked) ==
    Outcome(statusCode,
            [message |-> message, error |-> errorType,
             statusCode |-> statusCode, path |-> path],
            tbl, ticked)

NotFoundHandler(req, tbl) ==
    SendErrorResponse(req.path, StatusNotFound, "Not Found",
                      << "Cannot", req.method >>, tbl, FALSE)

\* http.NotFound and the 405 of http.ServeMux: a text/plain body
MuxError(statusCode, tbl) ==
    Outcome(statusCode,
            [text |-> IF statusCode = StatusNotFound THEN "404 page not found"
                      ELSE "Method Not Allowed"],
            tbl, FALSE)

\* the handler the mux dispatches to, run to its end
Dispatch(tbl, id, t, req) ==
    LET route == Route(req)
        path == StripPrefix(req.path)
    IN  CASE route = "HealthHandler" -> HealthHandler(tbl)
          [] route = "NotFoundHandler" -> NotFoundHandler(req, tbl)
          [] route = "HealthHandlerWithDB" -> HealthHandlerWithDB(req.dbErr, tbl)
          [] route = "404" -> MuxError(StatusNotFound, tbl)
          [] route = "405" -> MuxError(StatusMethodNotAllowed, tbl)
          [] route = "GetAllMenuItems" ->
                HandleGetAllMenuItems(req.dbErr, tbl, req.query)
          [] route = "CreateMenuItem" ->
                HandleCreateMenuItem(req.dbErr, tbl, id, t, req.body)
          [] route = "GetDeletedMenuItems" ->
                HandleGetDeletedMenuItems(req.dbErr, tbl)
          [] route = "GetMenuItemsByCategory" ->
                HandleGetMenuItemsByCategory(req.dbErr, tbl, path[3])
          [] route = "GetMenuItemByID" ->
                HandleGetMenuItemByID(req.dbErr, tbl, Chars(path[2]))
          [] route = "UpdateMenuItem" ->
                HandleUpdateMenuItem(req.dbErr, tbl, Chars(path[2]), t, req.body)
          [] route = "DeleteMenuItem" ->
                HandleDeleteMenuItem(req.dbErr, tbl, Chars(path[2]), t, req.force)
          [] route = "RestoreMenuItem" ->
                HandleRestoreMenuItem(req.dbErr, tbl, Chars(path[2]), t)

\* What a handler hands back to the middleware around it: the response
\* written so far (status 0: none), the table, and whether it panicked.
Served(panicked, out) == [panicked |-> panicked, log |-> << >>] @@ out

\* mux.ServeHTTP: a handler that panics has written nothing
ServeMux(tbl, id, t, req) ==
    CASE req.panic = "entry" -> Served(TRUE, Outcome(0, << >>, tbl, FALSE))
      [] req.panic = "exit" ->
            Served(TRUE, [Dispatch(tbl, id, t, req) EXCEPT !.status = 0,
                                                           !.body = << >>])
      [] OTHER -> Served(FALSE, Dispatch(tbl, id, t, req))

\* mutant of RecoveryMiddleware: no deferred recover
RecoveryMiddlewareNoRecover(req, next) == next

\* defer func() { if err := recover(); err != nil { SendErrorResponse } }()
RecoveryMiddleware(req, next) ==
    IF next.panicked
    THEN Served(FALSE,
                SendErrorResponse(req.path, StatusInternalServerError,
                                  "Internal Server Error",
                                  "An unexpected error occurred",
                                  next.tbl, next.ticked))
    ELSE next

\* the level of the log line: slog.LevelError from 500, slog.LevelWarn from
\* 400, slog.LevelInfo below
LogLevel(statusCode) ==
    IF statusCode >= 500 THEN "ERROR"
    ELSE IF statusCode >= 400 THEN "WARN"
    ELSE "INFO"

\* the log line written after next returns; a panic passes through without
\* one
LoggingMiddleware(req, next) ==
    IF next.panicked THEN next
    ELSE [next EXCEPT !.log = << [method |-> req.method, path |-> req.path,
                                  status |-> next.status,
                                  level |-> LogLevel(next.status)] >>]

CORSHeaders ==
    {"Access-Control-Allow-Origin", "Access-Control-Allow-Methods",
     "Access-Control-Allow-Headers"}

\* what the client receives
Response(headers, served) == [headers |-> headers] @@ served

\* mutant of CORSMiddleware: OPTIONS is passed on like any other method
CORSMiddlewarePassOptions(tbl, req, next) == Response(CORSHeaders, next)

CORSMiddleware(tbl, req, next) ==
    IF req.method = "OPTIONS"
    THEN Response(CORSHeaders, Served(FALSE, Outcome(StatusOK, << >>, tbl, FALSE)))
    ELSE Response(CORSHeaders, next)

\* handler = CORSMiddleware(LoggingMiddleware(RecoveryMiddleware(mux)))
ServeHTTP(tbl, id, t, req) ==
    CORSMiddleware(tbl, req,
        LoggingMiddleware(req,
            RecoveryMiddleware(req, ServeMux(tbl, id, t, req))))

\* ------------------------------------------------------------------------
\* The server behind its middleware stack: one request at a time
\* ------------------------------------------------------------------------

PutPrice == [EmptyUpdate EXCEPT !.Price = Some(2000)]

\* the requests sent to the server, but for those with the body of a
\* create request
HTTPRequests ==
    LET get == Request("GET", ItemPath("1"))
        getx == Request("GET", ItemPath("x"))
        put == [Request("PUT", ItemPath("1")) EXCEPT !.body = RawBody(PutPrice)]
        del == Request("DELETE", ItemPath("1"))
        restore == Request("POST", ItemPath("1") \o << "restore" >>)
        cat(c) == Request("GET", ItemsPath \o << "category", c >>)
        down(r) == [r EXCEPT !.dbErr = ErrConnRefused]
    IN  {get, put, del, [del EXCEPT !.force = "true"], restore,
         Request("GET", ItemsPath), Request("GET", ItemPath("deleted")),
         cat("main")}
        \cup {[r EXCEPT !.dbErr = e] :
                r \in {get, put, del, restore}, e \in StoreErrors}
        \cup {getx, down(getx), down(Request("DELETE", ItemPath("x"))),
              down([put EXCEPT !.body = Malformed(PutPrice)]),
              [put EXCEPT !.body = TrailingData(PutPrice)]}
        \cup {cat("brunch"), down(cat("brunch")), down(cat("main")),
              cat("fast food")}
        \cup {Request("GET", << "nope" >>), Request("GET", << "api", "v1", "nope" >>),
              Request("PATCH", ItemsPath),
              Request("GET", ItemPath("1") \o << "restore" >>)}
        \cup {Request("OPTIONS", ItemPath("1")), Request("OPTIONS", << "nope" >>),
              Request("OPTIONS", HealthPath),
              down(Request("OPTIONS", ApiHealthPath))}
        \cup {Request("GET", HealthPath), down(Request("GET", HealthPath)),
              Request("GET", ApiHealthPath)}
        \cup {[Request("GET", ApiHealthPath) EXCEPT !.dbErr = e] : e \in StoreErrors}
        \cup {[get EXCEPT !.panic = "entry"], [del EXCEPT !.panic = "exit"]}
        \cup {[put EXCEPT !.body = RawBody([EmptyUpdate EXCEPT !.Price = Some(0)])]}

\* the requests with the body of a create request
CreateRequests ==
    LET create == [Request("POST", ItemsPath) EXCEPT !.body = RawBody(BaseCreate)]
    IN  {create,
         [create EXCEPT !.body = Malformed(BaseCreate), !.dbErr = ErrConnRefused],
         [create EXCEPT !.body = TrailingData(BaseCreate)],
         [create EXCEPT !.method = "OPTIONS"],
         [create EXCEPT !.panic = "exit"],
         [create EXCEPT !.body = RawBody([BaseCreate EXCEPT !.Price = 0])]}

\* the request is served: the response is what the client receives
Serve(req) ==
    \E resp \in {ServeHTTP(table, nextID, now + 1, req)} :
    LET inserted == nextID \in DOMAIN resp.tbl
    IN  /\ resp.ticked => now < MaxTime
        /\ inserted => nextID <= MaxItems
        /\ table' = resp.tbl
        /\ now' = IF resp.ticked THEN now + 1 ELSE now
        /\ nextID' = IF inserted THEN nextID + 1 ELSE nextID
        /\ last' = [op |-> "http", arg |-> req, status |-> resp.status,
                    body |-> resp.body, headers |-> resp.headers,
                    log |-> resp.log, panicked |-> resp.panicked,
                    afterPanic |-> (last.op = "http" /\ last.arg.panic # "none")]
        /\ forceDeleted' =
              IF /\ Route(req) = "DeleteMenuItem"
                 /\ req.method # "OPTIONS"
                 /\ req.force = "true"
                 /\ resp.status = StatusOK
              THEN forceDeleted \cup {extractIDFromPath(Chars(req.path[4])).id}
              ELSE forceDeleted
        /\ UNCHANGED << calls, health, store >>

\* an OPTIONS request
S_Options ==
    \/ \E req \in HTTPRequests : req.method = "OPTIONS" /\ Serve(req)
    \/ \E req \in CreateRequests : req.method = "OPTIONS" /\ Serve(req)

\* a request for "/health"
S_Health ==
    \E req \in HTTPRequests :
        req.method # "OPTIONS" /\ Route(req) = "HealthHandler" /\ Serve(req)

\* a request for "/api/v1/health"
S_ApiHealth ==
    \E req \in HTTPRequests :
        req.method # "OPTIONS" /\ Route(req) = "HealthHandlerWithDB" /\ Serve(req)

\* a request that no pattern of the root mux but the catch-all matches
S_NotFound ==
    \E req \in HTTPRequests :
        req.method # "OPTIONS" /\ Route(req) = "NotFoundHandler" /\ Serve(req)

\* a request under "/api/v1/" that no pattern of apiV1 matches
S_ApiUnmatched ==
    \E req \in HTTPRequests :
        req.method # "OPTIONS" /\ Route(req) \in {"404", "405"} /\ Serve(req)

\* a request for a menu-item route
S_Items ==
    \E req \in HTTPRequests :
        /\ req.method # "OPTIONS"
        /\ Route(req) \in {p.handler : p \in ApiPatterns} \ {"HealthHandlerWithDB"}
        /\ Serve(req)

\* a POST /api/v1/items
S_Create ==
    \E req \in CreateRequests : req.method # "OPTIONS" /\ Serve(req)

NextServer ==
    \/ S_Options
    \/ S_Health
    \/ S_ApiHealth
    \/ S_NotFound
    \/ S_ApiUnmatched
    \/ S_Items
    \/ S_Create

SpecServer == Init /\ [][NextServer]_vars

\* ------------------------------------------------------------------------
\* The health check against a store that may not answer
\* ------------------------------------------------------------------------

\* how the store treats a ping: it answers, it refuses the connection, or
\* it never answers
StoreModes == {"up", "down", "silent"}

\* what the store answers to a ping, if it answers
StoreAnswer(mode) ==
    CASE mode = "up" -> {NoError}
      [] mode = "down" -> {ErrConnRefused}
      [] OTHER -> {}

\* mutant of ContextErr: the check runs under r.Context() itself
ContextErrNoTimeout(h) ==
    IF h.gone THEN ErrCanceled ELSE NoError

\* ctx.Err() of ctx, cancel := context.WithTimeout(r.Context(), 5s): the
\* request's context has ended, or the five seconds have passed
ContextErr(h) ==
    IF h.gone THEN ErrCanceled
    ELSE IF h.left = 0 THEN ErrDeadline
    ELSE NoError

\* db.PingContext(ctx): the errors it can return now; none while the store
\* has not answered and ctx is not done
PingContext(h, mode) ==
    StoreAnswer(mode) \cup
        (IF ContextErr(h) # NoError THEN {ContextErr(h)} ELSE {})

\* a client sends GET /api/v1/health; the handler starts the check
HC_Request(c) ==
    /\ health[c].pc \in {"idle", "answered"}
    /\ health' = [health EXCEPT ![c] = [NoHealth EXCEPT !.pc = "pinging",
                                                        !.left = HealthTimeout]]
    /\ UNCHANGED << table, nextID, now, last, forceDeleted, calls, store >>

\* a second passes
HC_Tick ==
    /\ \E c \in Clients : health[c].pc = "pinging" /\ health[c].left > 0
    /\ health' = [c \in Clients |->
                    IF health[c].pc = "pinging" /\ health[c].left > 0
                    THEN [health[c] EXCEPT !.left = @ - 1]
                    ELSE health[c]]
    /\ UNCHANGED << table, nextID, now, last, forceDeleted, calls, store >>

\* the client closes its connection: r.Context() is cancelled
HC_ClientGone(c) ==
    /\ health[c].pc = "pinging"
    /\ ~health[c].gone
    /\ health' = [health EXCEPT ![c].gone = TRUE]
    /\ UNCHANGED << table, nextID, now, last, forceDeleted, calls, store >>

\* database.HealthCheck returns and the handler writes its response
HC_Answer(c) ==
    /\ health[c].pc = "pinging"
    /\ \E err \in PingContext(health[c], store) :
          \E out \in {HealthHandlerWithDB(err, table)} :
              health' = [health EXCEPT ![c].pc = "answered",
                                       ![c].err = err,
                                       ![c].status = out.status,
                                       ![c].body = out.body]
    /\ UNCHANGED << table, nextID, now, last, forceDeleted, calls, store >>

\* the store goes down, stops answering, or comes back
HC_Store ==
    /\ \E mode \in StoreModes \ {store} : store' = mode
    /\ UNCHANGED << table, nextID, now, last, forceDeleted, calls, health >>

NextHealth ==
    \/ \E c \in Clients : HC_Request(c)
    \/ HC_Tick
    \/ \E c \in Clients : HC_ClientGone(c)
    \/ \E c \in Clients : HC_Answer(c)
    \/ HC_Store

\* Time passes, and a handler whose ping can return runs on.
SpecHealth ==
    /\ Init
    /\ [][NextHealth]_vars
    /\ WF_vars(HC_Tick)
    /\ \A c \in Clients : WF_vars(HC_Answer(c))

\* ------------------------------------------------------------------------
\* Concurrent item requests: a handler loads the item with one statement
\* and writes it with another, and the statements of the requests of two
\* connections interleave
\* ------------------------------------------------------------------------

PutName == [EmptyUpdate EXCEPT !.Name = Some(<< "A" >>)]

\* the body of the PUT requests of a connection: "a" sets the name, "b" the
\* price
ConnUpdate(c) == IF c = "a" THEN PutName ELSE PutPrice

\* the status a handler writes for the error of its service call
ErrorStatus(err) ==
    IF ContainsNoRows(err) THEN StatusNotFound
    ELSE IF ContainsNotDeleted(err) THEN StatusBadRequest
    ELSE StatusInternalServerError

\* the first statement of a service method has run: found is the rows of
\* its SELECT, err the error the method returns before its second statement
\* (NoError when it goes on)
Loaded(c, op, id, req, found, err) ==
    /\ calls[c].pc \in {"idle", "done"}
    /\ calls' = [calls EXCEPT ![c] =
          IF err # NoError
          THEN [NoCall EXCEPT !.pc = "done", !.op = op, !.id = id, !.req = req,
                              !.status = ErrorStatus(err), !.at = now]
          ELSE [NoCall EXCEPT !.pc = "loaded", !.op = op, !.id = id,
                              !.req = req,
                              !.item = Some(CHOOSE r \in found : TRUE)]]
    /\ UNCHANGED << table, nextID, now, last, forceDeleted, health, store >>

\* POST /items with the base request; the insert is one statement
CC_Create ==
    \E out \in {HandleCreateMenuItem(NoError, table, nextID, now + 1,
                                      RawBody(BaseCreate))} :
        /\ nextID <= MaxItems
        /\ Handled("create", [body |-> RawBody(BaseCreate)], out)
        /\ nextID' = nextID + 1
        /\ UNCHANGED forceDeleted

\* PUT /items/{id}: s.query.FindByID
CC_UpdateLoad(c) ==
    \E id \in IDs :
        \E found \in {FindByID(table, id)} :
            Loaded(c, "update", id, Some(ConnUpdate(c)), found,
                   IF found = {} THEN ErrNoRows ELSE NoError)

\* DELETE /items/{id}: s.query.FindByID
CC_SoftDeleteLoad(c) ==
    \E id \in IDs :
        \E found \in {FindByID(table, id)} :
            Loaded(c, "delete", id, None, found,
                   IF found = {} THEN ErrNoRows ELSE NoError)

\* DELETE /items/{id}?force=true: s.query.FindByIDWithDeleted
CC_ForceDeleteLoad(c) ==
    \E id \in IDs :
        \E found \in {FindByIDWithDeleted(table, id)} :
            Loaded(c, "force", id, None, found,
                   IF found = {} THEN ErrNoRows ELSE NoError)

\* POST /items/{id}/restore: s.query.FindByIDWithDeleted and IsDeleted
CC_RestoreLoad(c) ==
    \E id \in IDs :
        \E found \in {FindByIDWithDeleted(table, id)} :
            Loaded(c, "restore", id, None, found,
                   IF found = {} THEN ErrNoRows
                   ELSE IF ~IsDeleted(CHOOSE r \in found : TRUE)
                   THEN ErrNotDeleted
                   ELSE NoError)

\* the second statement of the service method, on the struct it loaded,
\* and the return of the method
WriteStatement(tbl, t, call) ==
    LET item == call.item[1]
    IN  CASE call.op = "update" ->
                UpdateExec(tbl, call.id, t, UpdateFields(item, call.req[1]))
          [] call.op = "delete" ->
                Result(NoError, None, SoftDelete(tbl, item, t), TRUE)
          [] call.op = "restore" ->
                Result(NoError,
                       toResponse([item EXCEPT !.DeletedAt = None,
                                               !.UpdatedAt = t]),
                       Restore(tbl, item, t), TRUE)
          [] OTHER ->
                Result(NoError, None, ForceDelete(tbl, item), FALSE)

\* the handler runs its second statement and writes its response
CC_Exec(c) ==
    /\ calls[c].pc = "loaded"
    /\ \E r \in {WriteStatement(table, now + 1, calls[c])} :
          /\ r.ticked => now < MaxTime
          /\ table' = r.tbl
          /\ now' = IF r.ticked THEN now + 1 ELSE now
          /\ calls' = [calls EXCEPT
                ![c].pc = "done",
                ![c].status = IF r.err = NoError THEN StatusOK
                              ELSE ErrorStatus(r.err),
                ![c].data = r.data,
                ![c].at = now']
          /\ forceDeleted' = IF calls[c].op = "force" /\ r.err = NoError
                             THEN forceDeleted \cup {calls[c].id}
                             ELSE forceDeleted
    /\ UNCHANGED << nextID, last, health, store >>

NextConcurrent ==
    \/ CC_Create
    \/ \E c \in Conns : CC_UpdateLoad(c)
    \/ \E c \in Conns : CC_SoftDeleteLoad(c)
    \/ \E c \in Conns : CC_ForceDeleteLoad(c)
    \/ \E c \in Conns : CC_RestoreLoad(c)
    \/ \E c \in Conns : CC_Exec(c)

SpecConcurrent == Init /\ [][NextConcurrent]_vars

\* ------------------------------------------------------------------------
\* Properties
\* ------------------------------------------------------------------------

IDsOf(responses) == {d.ID : d \in responses}

Deleted(tbl) == {r \in Rows(tbl) : r.DeletedAt # None}

Active(tbl) == {r \in Rows(tbl) : r.DeletedAt = None}

SearchTerms == {<< "p" >>, << "s" >>, << "%" >>, << "_" >>}

AllCategories == validCategories \cup {"brunch"}

\* C1: a soft-deleted item is never returned by the default list, the
\* category list (query parameter or path), the available-only list or the
\* search, and GET /items/{id} on it is answered 404.
C1_DeletedNeverListed ==
    \A r \in Deleted(table) :
        /\ r.ID \notin IDsOf(GetAllMenuItems(table).data)
        /\ r.ID \notin IDsOf(GetAvailableMenuItems(table).data)
        /\ \A c \in AllCategories :
              r.ID \notin IDsOf(GetMenuItemsByCategory(table, c).data)
        /\ \A c \in validCategories :
              r.ID \notin IDsOf(HandleGetMenuItemsByCategory(NoError, table, c).body.data)
        /\ \A term \in SearchTerms :
              r.ID \notin IDsOf(SearchMenuItems(table, term).data)
        /\ \A q \in ListQueries :
              ListBranch(q) # "include_deleted" =>
                  r.ID \notin IDsOf(HandleGetAllMenuItems(NoError, table, q).body.data)
        /\ HandleGetMenuItemByID(NoError, table, Seg(r.ID)).status = StatusNotFound

\* C1 witness: an item is soft-deleted, and GET /items/{id} on it has just
\* been answered 404.
C1_Witness ==
    \E r \in Deleted(table) :
        /\ last.op = "get"
        /\ last.arg.seg = Seg(r.ID)
        /\ last.status = StatusNotFound

\* C2: POST /items/{id}/restore on a soft-deleted item is answered 200, and
\* afterwards the item has no deleted_at, is in the active listing and is
\* found by GET /items/{id}, and is not in the deleted listing.
C2_RestoreSucceeds ==
    [][\A i \in DOMAIN table :
          (table[i].DeletedAt # None /\ last'.op = "restore"
               /\ last'.arg.seg = Seg(i))
          => /\ last'.status = StatusOK
             /\ i \in DOMAIN table'
             /\ table'[i].DeletedAt = None
             /\ i \in IDsOf(GetAllMenuItems(table').data)
             /\ HandleGetMenuItemByID(NoError, table', Seg(i)).status = StatusOK
             /\ i \notin IDsOf(GetDeletedMenuItems(table').data)]_vars

\* C3: GET /items/deleted returns exactly the items whose deleted_at is not
\* null.
C3_DeletedListingExact ==
    last.op = "deleted" =>
        /\ last.status = StatusOK
        /\ IDsOf(last.body.data) = {r.ID : r \in Deleted(table)}

C5_RestoreActiveIs400 ==
    \A r \in Active(table) :
        LET out == HandleRestoreMenuItem(NoError, table, Seg(r.ID), now + 1)
        IN  /\ out.status = StatusBadRequest
            /\ out.body.message = "Menu item is not deleted"
            /\ out.tbl = table

\* C5 witness: a restore of an active item has been answered 400.
C5_Witness ==
    \E r \in Active(table) :
        /\ last.op = "restore"
        /\ last.arg.seg = Seg(r.ID)
        /\ last.status = StatusBadRequest

\* the fields an update request can carry
RequestFields == {"Name", "Description", "Price", "Category", "IsAvailable"}

\* C6: an update answered 200 leaves id, created_at, deleted_at and every
\* field the request does not carry as they were, and makes updated_at
\* strictly greater.
C6_UpdateFrame ==
    [][\A i \in DOMAIN table :
          (last'.op = "update" /\ last'.status = StatusOK
               /\ last'.arg.seg = Seg(i))
          => /\ i \in DOMAIN table'
             /\ table'[i].ID = table[i].ID
             /\ table'[i].CreatedAt = table[i].CreatedAt
             /\ table'[i].DeletedAt = table[i].DeletedAt
             /\ \A f \in RequestFields :
                   last'.arg.body.req[f] = None => table'[i][f] = table[i][f]
             /\ table'[i].UpdatedAt > table[i].UpdatedAt]_vars

\* C6 witness: an update that carries only a price has been answered 200 and
\* the stored price is the requested one.
C6_Witness ==
    /\ last.op = "update"
    /\ last.status = StatusOK
    /\ last.arg.body.req.Price # None
    /\ last.arg.body.req.Name = None
    /\ \E i \in DOMAIN table :
          /\ last.arg.seg = Seg(i)
          /\ table[i].Price = last.arg.body.req.Price[1]
          /\ table[i].UpdatedAt > table[i].CreatedAt

\* validate:"required,min=1,max=100", "required,gt=0", "required,oneof=..."
ValidCreate(req) ==
    /\ Len(req.Name) >= 1
    /\ Len(req.Name) <= MaxNameLen
    /\ req.Price > 0
    /\ req.Category \in validCategories

\* C7: a create request with an empty or over-long name, a price that is
\* not positive or a category outside the enumeration is answered 400 and
\* inserts no row.
C7_InvalidCreateIs400 ==
    [][(last'.op = "create" /\ ~last'.arg.body.malformed
            /\ ~ValidCreate(last'.arg.body.req))
          => /\ last'.status = StatusBadRequest
             /\ table' = table]_vars

\* C8: a create request with a name of 1..100 characters, a positive price
\* and an enumerated category is answered 201; the returned item is
\* available unless the request says otherwise, and has no deleted_at.
C8_ValidCreateIs201 ==
    (last.op = "create" /\ ~last.arg.body.malformed
        /\ ValidCreate(last.arg.body.req))
    => /\ last.status = StatusCreated
       /\ last.body.data.IsAvailable =
             (IF last.arg.body.req.IsAvailable = None THEN TRUE
              ELSE last.arg.body.req.IsAvailable[1])
       /\ last.body.data.DeletedAt = None

\* C9: every stored item has a name of 1..100 characters, a positive price
\* and an enumerated category.
C9_StoredItemsValid ==
    \A r \in Rows(table) :
        /\ Len(r.Name) >= 1
        /\ Len(r.Name) <= MaxNameLen
        /\ r.Price > 0
        /\ r.Category \in validCategories

\* C10: GET /items answers with the result of one filter, the first that
\* applies of search, category, available=true, include_deleted=true and
\* the default; a soft-deleted item is in the answer only when that filter
\* is include_deleted.
C10_ListPrecedence ==
    last.op = "list" =>
        LET q == last.arg.q
            expected ==
                IF q.search # << >> THEN SearchMenuItems(table, q.search).data
                ELSE IF q.category # ""
                     THEN GetMenuItemsByCategory(table, q.category).data
                ELSE IF q.available = "true"
                     THEN GetAvailableMenuItems(table).data
                ELSE IF q.include_deleted = "true"
                     THEN GetAllMenuItemsWithDeleted(table).data
                ELSE GetAllMenuItems(table).data
        IN  /\ last.status = StatusOK
            /\ last.body.data = expected
            /\ \A d \in last.body.data :
                  d.DeletedAt # None =>
                      /\ q.search = << >>
                      /\ q.category = ""
                      /\ q.available # "true"
                      /\ q.include_deleted = "true"

\* C10 witness: a request with a search term and a category has been
\* answered with an item that the search matches and whose category is not
\* the requested one.
C10_Witness ==
    /\ last.op = "list"
    /\ last.arg.q.search # << >>
    /\ last.arg.q.category # ""
    /\ \E d \in last.body.data : d.Category # last.arg.q.category

\* the routes whose handler takes an identifier from the path
ByIDRoutes == {"GetMenuItemByID", "UpdateMenuItem", "DeleteMenuItem", "RestoreMenuItem"}

ItemRoutes == {p.handler : p \in ApiPatterns} \ {"HealthHandlerWithDB"}

\* the request reaches the handler of its route and the handler returns
Handles(req, routes) ==
    /\ req.method # "OPTIONS"
    /\ req.panic = "none"
    /\ Route(req) \in routes

\* the identifier in the path of a request for a by-id route
PathID(req) == extractIDFromPath(Chars(req.path[4]))

\* the rows the lookup of a by-id request finds
Lookup(tbl, req) ==
    IF \/ Route(req) = "RestoreMenuItem"
       \/ Route(req) = "DeleteMenuItem" /\ req.force = "true"
    THEN FindByIDWithDeleted(tbl, PathID(req).id)
    ELSE FindByID(tbl, PathID(req).id)

\* C11: a get, update, delete or restore by id is answered 404 "Menu item
\* not found" exactly when the store answered and the lookup found no row;
\* when the store call fails (connection refused, context cancelled,
\* deadline exceeded) the answer is 500 with the text of the error and the
\* table is left as it was.
C11_NotFoundVersusFailure ==
    [][LET req == last'.arg
       IN  (/\ last'.op = "http"
            /\ Handles(req, ByIDRoutes)
            /\ ~PathID(req).err
            /\ ~Decode(req.body).err)
           => /\ last'.status = StatusNotFound
                    <=> (req.dbErr = NoError /\ Lookup(table, req) = {})
              /\ last'.status = StatusNotFound
                    => last'.body.message = "Menu item not found"
              /\ req.dbErr # NoError
                    => /\ last'.status = StatusInternalServerError
                       /\ last'.body.message = req.dbErr
                       /\ table' = table]_vars

\* C11 witness: the item exists, the store call of a restore fails with a
\* cancelled context and the answer is 500.
C11_Witness ==
    /\ last.op = "http"
    /\ Route(last.arg) = "RestoreMenuItem"
    /\ last.arg.dbErr = ErrCanceled
    /\ last.status = StatusInternalServerError
    /\ 1 \in DOMAIN table

\* C12: every error response of an item handler, of Recovery and of the
\* not-found fallback has the fields error (the reason phrase), message and
\* code, and every successful response of an item handler has the fields
\* data and message.
C12_OneEnvelope ==
    (/\ last.op = "http"
     /\ last.arg.method # "OPTIONS"
     /\ Route(last.arg) \in ItemRoutes \cup {"NotFoundHandler"})
    => IF last.status >= StatusBadRequest
       THEN /\ DOMAIN last.body = {"error", "message", "code"}
            /\ last.body.error = StatusText(last.status)
            /\ last.body.code = last.status
       ELSE DOMAIN last.body = {"data", "message"}

\* C13: a request that matches no registered route, under /api/v1/ or not,
\* is answered 404 by the not-found fallback with its JSON error body.
C13_FallbackAnswersUnmatched ==
    (/\ last.op = "http"
     /\ last.arg.method # "OPTIONS"
     /\ last.arg.panic = "none"
     /\ Route(last.arg) \in {"NotFoundHandler", "404", "405"})
    => /\ last.status = StatusNotFound
       /\ DOMAIN last.body = DOMAIN NotFoundHandler(last.arg, table).body
       /\ last.body.error = "Not Found"

\* C14: when the handler of a request panics, the client receives a 500
\* error response written by Recovery, the panic goes no further, and the
\* table is what the handler had made of it when it panicked.
C14_RecoveryCatches ==
    [][LET req == last'.arg
       IN  (last'.op = "http" /\ req.method # "OPTIONS" /\ req.panic # "none")
           => /\ last'.status = StatusInternalServerError
              /\ last'.body.error = "Internal Server Error"
              /\ ~last'.panicked
              /\ table' = IF req.panic = "entry" THEN table
                          ELSE Dispatch(table, nextID, now + 1, req).tbl]_vars

\* C14 witness: the request after one whose handler panicked has been
\* answered 200 with the item.
C14_Witness ==
    /\ last.op = "http"
    /\ last.afterPanic
    /\ last.arg.panic = "none"
    /\ Route(last.arg) = "GetMenuItemByID"
    /\ last.status = StatusOK

\* C15: an OPTIONS request, whatever its path, is answered 200 with the
\* CORS headers and no body, and nothing is done for it: the table, the
\* clock and the identifiers are as before, whether or not the store
\* answers.
C15_OptionsShortCircuit ==
    [][(last'.op = "http" /\ last'.arg.method = "OPTIONS")
          => /\ last'.status = StatusOK
             /\ DOMAIN last'.body = {}
             /\ last'.headers = CORSHeaders
             /\ UNCHANGED << table, now, nextID >>]_vars

\* C15 witness: an OPTIONS request for /api/v1/health has been answered 200
\* while the store does not answer.
C15_Witness ==
    /\ last.op = "http"
    /\ last.arg.method = "OPTIONS"
    /\ last.arg.path = ApiHealthPath
    /\ last.arg.dbErr # NoError
    /\ last.status = StatusOK

\* the routes whose handler decodes a body
BodyRoutes == {"CreateMenuItem", "UpdateMenuItem"}

\* C16: a request with an identifier that is no integer, or a create or
\* update with a body that is not a JSON document, is answered 400
\* ("Invalid menu item ID", "Invalid JSON format") and leaves the table,
\* the clock and the identifiers as they were, whether or not the store
\* answers.
C16_BadInputIs400 ==
    [][LET req == last'.arg
           badID == Route(req) \in ByIDRoutes /\ PathID(req).err
           badBody == Route(req) \in BodyRoutes /\ req.body.malformed
       IN  (last'.op = "http" /\ Handles(req, ItemRoutes) /\ (badID \/ badBody))
           => /\ last'.status = StatusBadRequest
              /\ last'.body.message = (IF badID THEN "Invalid menu item ID"
                                       ELSE "Invalid JSON format")
              /\ UNCHANGED << table, now, nextID >>]_vars

\* C17: /api/v1/health answers 200 "healthy" exactly when the ping of the
\* store succeeds and 503 "degraded" exactly when it fails; /health answers
\* 200 "healthy" whether or not the store answers.
C17_Health ==
    /\ (last.op = "http" /\ Handles(last.arg, {"HealthHandlerWithDB"}))
       => /\ last.status \in {StatusOK, StatusServiceUnavailable}
          /\ last.status = StatusOK <=> last.arg.dbErr = NoError
          /\ last.status = StatusOK <=> last.body.status = "healthy"
          /\ last.status = StatusServiceUnavailable
                <=> last.body.status = "degraded"
    /\ (last.op = "http" /\ Handles(last.arg, {"HealthHandler"}))
       => /\ last.status = StatusOK
          /\ last.body.status = "healthy"

\* C17 witness: /api/v1/health has been answered 503 "degraded" while the
\* store did not answer.
C17_Witness ==
    /\ last.op = "http"
    /\ Handles(last.arg, {"HealthHandlerWithDB"})
    /\ last.arg.dbErr = ErrConnRefused
    /\ last.status = StatusServiceUnavailable
    /\ last.body.status = "degraded"

Lower(text) == [i \in DOMAIN text |-> ToLower(text[i])]

\* term occurs in text as a run of characters, without regard to case
ContainsFold(text, term) ==
    \E i \in 1..(Len(text) - Len(term) + 1) :
        SubSeq(Lower(text), i, i + Len(term) - 1) = Lower(term)

\* C18: for every term, the search returns exactly the active items whose
\* name or description contains the term, character for character and
\* without regard to case.
C18_SearchIsLiteral ==
    \A term \in SearchTerms :
        IDsOf(SearchMenuItems(table, term).data) =
            {r.ID : r \in {x \in Active(table) :
                \/ ContainsFold(x.Name, term)
                \/ x.Description # None /\ ContainsFold(x.Description[1], term)}}

\* C19: GET /items/category/{category} is answered 400 for a category
\* outside the six enumerated values, whether or not the store answers; for
\* an enumerated category, when the store answers, it returns exactly the
\* active items of that category.
C19_CategoryEndpoint ==
    (last.op = "http" /\ Handles(last.arg, {"GetMenuItemsByCategory"}))
    => LET category == last.arg.path[5]
       IN  IF category \notin validCategories
           THEN last.status = StatusBadRequest
           ELSE last.arg.dbErr = NoError
                => /\ last.status = StatusOK
                   /\ IDsOf(last.body.data) =
                         {r.ID : r \in {x \in Active(table) :
                                           x.Category = category}}

\* C19 witness: a category outside the enumeration has been answered 400
\* while the store did not answer.
C19_Witness ==
    /\ last.op = "http"
    /\ Handles(last.arg, {"GetMenuItemsByCategory"})
    /\ last.arg.path[5] = "brunch"
    /\ last.arg.dbErr # NoError
    /\ last.status = StatusBadRequest

RecoveryOutermost(tbl, id, t, req) ==
    Response(CORSHeaders,
        RecoveryMiddleware(req,
            LoggingMiddleware(req,
                CORSMiddleware(tbl, req, ServeMux(tbl, id, t, req)))))

\* C21: every request is served as by the chain Recovery (outermost), then
\* Logging, then CORS, then the router (innermost): the response written,
\* the log line and the table are those of that nesting.
C21_RecoveryLoggingCORS ==
    [][last'.op = "http" =>
          \E c \in {RecoveryOutermost(table, nextID, now + 1, last'.arg)} :
              /\ last'.status = c.status
              /\ last'.body = c.body
              /\ last'.headers = c.headers
              /\ last'.log = c.log
              /\ table' = c.tbl]_vars

\* C22: every request served, an OPTIONS request and a request whose
\* handler panicked included, has exactly one log line, which carries the
\* status written for it, at level WARN from 400 and ERROR from 500.
C22_OneLogLinePerRequest ==
    last.op = "http" =>
        /\ Len(last.log) = 1
        /\ last.log[1].status = last.status
        /\ last.status >= 500 => last.log[1].level = "ERROR"
        /\ last.status >= 400 /\ last.status < 500 => last.log[1].level = "WARN"

\* ------------------------------------------------------------------------
\* Soft-delete of a soft-deleted item
\* ------------------------------------------------------------------------

\* the step handles DELETE /items/{id} without force=true for an item
\* that is soft-deleted when the request arrives
SoftDeleteOfDeleted ==
    /\ last'.op = "delete"
    /\ last'.arg.force # "true"
    /\ \E r \in Deleted(table) : Seg(r.ID) = last'.arg.seg

\* C23 as stated: a soft-delete request for an item that is already
\* soft-deleted leaves the stored records as they are and is answered 200
\* or 400.
C23_DoubleSoftDelete200Or400 ==
    [][SoftDeleteOfDeleted =>
          /\ table' = table
          /\ last'.status \in {StatusOK, StatusBadRequest}]_vars

\* C23 amended: a soft-delete request for an item that is already
\* soft-deleted leaves the stored records as they are (deleted_at and
\* updated_at keep their values) and is answered 404 "Menu item not found".
C23_DoubleSoftDeleteIs404 ==
    [][SoftDeleteOfDeleted =>
          /\ table' = table
          /\ last'.status = StatusNotFound
          /\ last'.body.message = "Menu item not found"]_vars

\* C23 witness: a soft-delete request for a soft-deleted item has been
\* answered.
C23_Witness ==
    /\ last.op = "delete"
    /\ last.arg.force # "true"
    /\ last.status = StatusNotFound
    /\ \E r \in Deleted(table) :
          /\ Seg(r.ID) = last.arg.seg
          /\ r.DeletedAt[1] < now

\* ------------------------------------------------------------------------
\* The health check ends
\* ------------------------------------------------------------------------

\* C24: every request to GET /api/v1/health is answered, also when the
\* store never answers the ping: the ping runs under a deadline of five
\* seconds, and when it returns because the deadline has passed the
\* handler answers 503 "degraded".
C24_HealthAlwaysAnswers ==
    /\ \A c \in Clients :
          health[c].pc = "pinging" ~> health[c].pc = "answered"
    /\ [](\A c \in Clients :
            /\ health[c].pc = "pinging" => health[c].left \in 0..HealthTimeout
            /\ health[c].pc = "answered" /\ health[c].err = ErrDeadline =>
                  /\ health[c].left = 0
                  /\ health[c].status = StatusServiceUnavailable
                  /\ health[c].body.status = "degraded")

\* C24 witness: a client has been answered 503 when the five seconds had
\* passed, the store never having answered.
C24_Witness ==
    \E c \in Clients :
        /\ health[c].pc = "answered"
        /\ health[c].err = ErrDeadline
        /\ health[c].status = StatusServiceUnavailable
        /\ ~health[c].gone
        /\ store = "silent"

\* ------------------------------------------------------------------------
\* Concurrent requests for one item
\* ------------------------------------------------------------------------

\* connection c has been answered 200 for its last request, an op on id
\* (the answer stands until c sends its next request)
Answered200(c, op, id) ==
    /\ calls[c].pc = "done"
    /\ calls[c].op = op
    /\ calls[c].id = id
    /\ calls[c].status = StatusOK

\* C25: when a PUT that sets the name and a PUT that sets the price of the
\* same active item have both been answered 200, however their statements
\* interleaved, the stored item carries the new name and the new price.
C25_NoLostUpdate ==
    \A id \in IDs :
        Answered200("a", "update", id) /\ Answered200("b", "update", id) =>
            /\ id \in DOMAIN table
            /\ table[id].Name = PutName.Name[1]
            /\ table[id].Price = PutPrice.Price[1]

\* C26: the deleted_at of a stored item goes from set to null only in the
\* write step of a restore that is answered 200; no write of an update
\* clears it.
C26_OnlyRestoreClearsDeletedAt ==
    [][\A i \in DOMAIN table \cap DOMAIN table' :
          table[i].DeletedAt # None /\ table'[i].DeletedAt = None =>
              \E c \in Conns :
                  /\ calls[c].pc = "loaded"
                  /\ calls[c].op = "restore"
                  /\ calls[c].id = i
                  /\ calls'[c].pc = "done"
                  /\ calls'[c].status = StatusOK]_vars

\* C26 witness: an update that loaded the item while it was active has
\* run its write after the item was soft-deleted by the other connection,
\* and the item is still soft-deleted.
C26_Witness ==
    \E c \in Conns, id \in DOMAIN table :
        /\ Answered200(c, "update", id)
        /\ calls[c].item[1].DeletedAt = None
        /\ table[id].DeletedAt # None
        /\ table[id].DeletedAt[1] < calls[c].at
        /\ \E d \in Conns \ {c} : Answered200(d, "delete", id)

\* C27: a 200 for an update, a soft-delete or a restore means that the
\* row of the item was there when the write ran and was modified by it.
C27_SuccessMeansWritten ==
    [][\A c \in Conns :
          /\ calls[c].pc = "loaded"
          /\ calls[c].op \in {"update", "delete", "restore"}
          /\ calls'[c].pc = "done"
          /\ calls'[c].status = StatusOK
          => /\ calls[c].id \in DOMAIN table
             /\ table'[calls[c].id] # table[calls[c].id]]_vars

\* ------------------------------------------------------------------------
\* Requests that fail
\* ------------------------------------------------------------------------

Listed(tbl, q) == HandleGetAllMenuItems(NoError, tbl, q).body.data

\* C29: the list of GET /items?include_deleted=true is the disjoint union
\* of the list of GET /items and the list of GET /items/deleted, and every
\* stored item is in exactly one of these two.
C29_ListingsPartitionTheTable ==
    LET active == Listed(table, ListQuery(<< >>, "", "", ""))
        all == Listed(table, ListQuery(<< >>, "", "", "true"))
        deleted == HandleGetDeletedMenuItems(NoError, table).body.data
    IN  /\ all = active \cup deleted
        /\ active \cap deleted = {}
        /\ \A r \in Rows(table) :
              r.ID \in IDsOf(active) <=> r.ID \notin IDsOf(deleted)

\* C30: a soft-delete changes only deleted_at and updated_at of an active
\* item; while the item is soft-deleted no request but a restore or a
\* force-delete changes it; and a restore of it is answered 200, sets
\* deleted_at to null, changes no other field but updated_at, and returns
\* the item as a following GET /items/{id} returns it.
C30_SoftDeleteRestoreRoundTrip ==
    [][\A i \in DOMAIN table :
          LET softDelete == /\ last'.op = "delete"
                            /\ last'.arg.force # "true"
                            /\ last'.arg.seg = Seg(i)
              restore == last'.op = "restore" /\ last'.arg.seg = Seg(i)
              forceDelete == /\ last'.op = "delete"
                             /\ last'.arg.force = "true"
                             /\ last'.arg.seg = Seg(i)
          IN  /\ softDelete /\ table[i].DeletedAt = None =>
                    /\ last'.status = StatusOK
                    /\ table'[i].DeletedAt # None
                    /\ table'[i] = [table[i] EXCEPT
                                        !.DeletedAt = table'[i].DeletedAt,
                                        !.UpdatedAt = table'[i].UpdatedAt]
              /\ table[i].DeletedAt # None /\ ~restore /\ ~forceDelete =>
                    /\ i \in DOMAIN table'
                    /\ table'[i] = table[i]
              /\ table[i].DeletedAt # None /\ restore =>
                    /\ last'.status = StatusOK
                    /\ table'[i] = [table[i] EXCEPT
                                        !.DeletedAt = None,
                                        !.UpdatedAt = table'[i].UpdatedAt]
                    /\ last'.body.data =
                          HandleGetMenuItemByID(NoError, table', Seg(i)).body.data
             ]_vars

====
